---------------------------- MODULE Spec2Model ----------------------------
(***************************************************************************)
(* Breakfast Club planner: the quantity planner, the live pricer and the   *)
(* cost engine of planned.py and the HTTP handlers of api.py (plan,        *)
(* record_consumption, generate_report), as one request/response state     *)
(* machine.                                                                *)
(*                                                                         *)
(* Python's numbers are modelled as they are computed.  Every quantity,    *)
(* price and total of the program is an int or a float (IEEE-754 binary64, *)
(* round to nearest, ties to even).  A number is the record                *)
(*   [s |-> 0 or 1, m |-> natural, e |-> integer]  of value (-1)^s * m * 2^e *)
(* kept canonical (m odd, or m = 0 with s = 0 and e = 0), so that two      *)
(* numbers are equal as Python values exactly when the records are equal.  *)
(* The small ints of the program are exactly representable and their       *)
(* arithmetic is exact in this form.  A natural is a little-endian         *)
(* sequence of limbs below 2^15 without leading zero limbs, since a        *)
(* 53-bit significand does not fit TLC's 32-bit integers.                   *)
(***************************************************************************)
EXTENDS Integers, Sequences, FiniteSets, TLC

\* ------------------------------------------------------------------------
\* Naturals of arbitrary size
\* ------------------------------------------------------------------------
LimbBase == 2^15

RECURSIVE NatToB(_)
NatToB(n) == IF n = 0 THEN << >> ELSE <<n % LimbBase>> \o NatToB(n \div LimbBase)

RECURSIVE BToNat(_)
BToNat(a) == IF a = << >> THEN 0 ELSE Head(a) + LimbBase * BToNat(Tail(a))

RECURSIVE BTrim(_)
BTrim(a) ==
  IF a = << >> THEN << >>
  ELSE IF a[Len(a)] = 0 THEN BTrim(SubSeq(a, 1, Len(a) - 1)) ELSE a

RECURSIVE BAddC(_, _, _)
BAddC(a, b, c) ==
  IF a = << >> /\ b = << >> THEN (IF c = 0 THEN << >> ELSE <<c>>)
  ELSE LET Step(x) ==
             <<x % LimbBase>>
               \o BAddC(IF a = << >> THEN << >> ELSE Tail(a),
                        IF b = << >> THEN << >> ELSE Tail(b), x \div LimbBase)
       IN  Step((IF a = << >> THEN 0 ELSE Head(a))
                  + (IF b = << >> THEN 0 ELSE Head(b)) + c)

BAdd(a, b) == BAddC(a, b, 0)

\* a - b for a >= b, before trimming
RECURSIVE BSubC(_, _, _)
BSubC(a, b, c) ==
  IF a = << >> THEN << >>
  ELSE LET Step(x) ==
             <<IF x < 0 THEN x + LimbBase ELSE x>>
               \o BSubC(Tail(a), IF b = << >> THEN << >> ELSE Tail(b),
                        IF x < 0 THEN 1 ELSE 0)
       IN  Step(Head(a) - (IF b = << >> THEN 0 ELSE Head(b)) - c)

BSub(a, b) == BTrim(BSubC(a, b, 0))

\* -1, 0, 1 as a < b, a = b, a > b
RECURSIVE BCmpTop(_, _, _)
BCmpTop(a, b, i) ==
  IF i = 0 THEN 0
  ELSE IF a[i] < b[i] THEN -1
  ELSE IF a[i] > b[i] THEN 1
  ELSE BCmpTop(a, b, i - 1)

BCmp(a, b) ==
  IF Len(a) < Len(b) THEN -1
  ELSE IF Len(a) > Len(b) THEN 1
  ELSE BCmpTop(a, b, Len(a))

\* a * k + c for a limb k
RECURSIVE BMulS(_, _, _)
BMulS(a, k, c) ==
  IF a = << >> THEN (IF c = 0 THEN << >> ELSE <<c>>)
  ELSE LET Step(x) == <<x % LimbBase>> \o BMulS(Tail(a), k, x \div LimbBase)
       IN  Step(Head(a) * k + c)

BShiftLimb(a) == IF a = << >> THEN << >> ELSE <<0>> \o a

RECURSIVE BMul(_, _)
BMul(a, b) ==
  IF a = << >> \/ b = << >> THEN << >>
  ELSE BAdd(BTrim(BMulS(a, Head(b), 0)), BShiftLimb(BMul(a, Tail(b))))

\* long division of a by a limb d from the top limb down: q collects the
\* quotient's limbs, r is the running remainder
RECURSIVE BDivSTop(_, _, _, _, _)
BDivSTop(a, d, i, r, q) ==
  IF i = 0 THEN [q |-> BTrim(q), r |-> r]
  ELSE LET Step(x) == BDivSTop(a, d, i - 1, x % d, <<x \div d>> \o q)
       IN  Step(r * LimbBase + a[i])

BDivS(a, d) == BDivSTop(a, d, Len(a), 0, << >>)

RECURSIVE LimbBits(_)
LimbBits(x) == IF x = 0 THEN 0 ELSE 1 + LimbBits(x \div 2)

BitLen(a) == IF a = << >> THEN 0 ELSE 15 * (Len(a) - 1) + LimbBits(a[Len(a)])

BOdd(a) == a # << >> /\ Head(a) % 2 = 1

RECURSIVE BShlLimbs(_, _)
BShlLimbs(a, n) == IF n = 0 THEN a ELSE BShlLimbs(BShiftLimb(a), n - 1)

\* a * 2^k
BShl(a, k) == BShlLimbs(BTrim(BMulS(a, 2^(k % 15), 0)), k \div 15)

\* floor(a / 2^k) and whether bits were lost: the limbs below the cut, and
\* the division of the limbs above it
BLost(low, d) ==
  [q |-> d.q, lost |-> (d.r # 0) \/ (\E i \in 1..Len(low) : low[i] # 0)]

BShrLimbs(a, n, k) ==
  BLost(IF n >= Len(a) THEN a ELSE SubSeq(a, 1, n),
        BDivS(IF n >= Len(a) THEN << >> ELSE SubSeq(a, n + 1, Len(a)), 2^k))

BShr(a, k) == BShrLimbs(a, k \div 15, k % 15)

\* ------------------------------------------------------------------------
\* Python numbers
\* ------------------------------------------------------------------------
Zero == [s |-> 0, m |-> << >>, e |-> 0]

RECURSIVE TrailingZeros(_)
TrailingZeros(a) ==
  IF a = << >> THEN 0
  ELSE IF Head(a) = 0 THEN 15 + TrailingZeros(Tail(a))
  ELSE IF Head(a) % 2 = 0 THEN 1 + TrailingZeros(<<Head(a) \div 2>>)
  ELSE 0

Strip(s, m, e, tz) == [s |-> s, m |-> BShr(m, tz).q, e |-> e + tz]

Canon(s, m, e) == IF m = << >> THEN Zero ELSE Strip(s, m, e, TrailingZeros(m))

\* h / 2 rounded to the nearest natural, ties to even, where q = h \div 2 and
\* lost says that the value halved is above h
HalfEven(h, lost, q) == IF BOdd(h) /\ (lost \/ BOdd(q)) THEN BAdd(q, <<1>>) ELSE q

RoundHalf(sh, sticky) == HalfEven(sh.q, sh.lost \/ sticky, BDivS(sh.q, 2).q)

RoundBits(s, m, e, sticky, L) ==
  Canon(s, IF L <= 53 THEN m ELSE RoundHalf(BShr(m, (L - 53) - 1), sticky),
        IF L <= 53 THEN e ELSE e + (L - 53))

\* The binary64 nearest to (-1)^s * (m + f) * 2^e, where 0 <= f < 1 and
\* sticky says f > 0; ties to even.  With sticky set m has over 53 bits.
RoundF(s, m, e, sticky) == RoundBits(s, m, e, sticky, BitLen(m))

FromInt(n) == Canon(IF n < 0 THEN 1 ELSE 0, NatToB(IF n < 0 THEN 0 - n ELSE n), 0)

IsZero(a) == a.m = << >>

\* -a, for the differences the properties take
FNeg(a) == IF IsZero(a) THEN a ELSE [a EXCEPT !.s = 1 - a.s]

FMul(a, b) == RoundF((a.s + b.s) % 2, BMul(a.m, b.m), a.e + b.e, FALSE)

MinExp(a, b) == IF a.e < b.e THEN a.e ELSE b.e

\* x and y are the significands at the common exponent e; c compares them
\* when the signs differ
FAddSigned(a, b, e, x, y, c) ==
  RoundF(IF c >= 0 THEN a.s ELSE b.s,
         IF a.s = b.s THEN BAdd(x, y) ELSE IF c >= 0 THEN BSub(x, y) ELSE BSub(y, x),
         e, FALSE)

FAddMant(a, b, e, x, y) == FAddSigned(a, b, e, x, y, IF a.s = b.s THEN 1 ELSE BCmp(x, y))

FAddAt(a, b, e) == FAddMant(a, b, e, BShl(a.m, a.e - e), BShl(b.m, b.e - e))

FAdd(a, b) ==
  IF IsZero(a) THEN b ELSE IF IsZero(b) THEN a ELSE FAddAt(a, b, MinExp(a, b))

FQuot(a, r) == RoundF(a.s, r.q, a.e - 75, r.r # 0)

\* a / d for an integer divisor 0 < d < 2^15 (true division, correctly rounded)
FDivS(a, d) == IF IsZero(a) THEN Zero ELSE FQuot(a, BDivS(BShl(a.m, 75), d))

\* a decimal literal n/d of the source, d a power of ten
Dec(n, d) == FDivS(FromInt(n), d)

FCmpAt(a, b, e) == BCmp(BShl(a.m, a.e - e), BShl(b.m, b.e - e))

FLessBy(s, c) == IF s = 0 THEN c < 0 ELSE c > 0

\* a < b
FLess(a, b) ==
  IF a.s # b.s THEN a.s = 1
  ELSE IF IsZero(a) THEN ~IsZero(b) /\ b.s = 0
  ELSE IF IsZero(b) THEN a.s = 1
  ELSE FLessBy(a.s, FCmpAt(a, b, MinExp(a, b)))

CeilOf(s, sh) ==
  (IF s = 1 THEN 0 - 1 ELSE 1) * BToNat(sh.q) + (IF s = 0 /\ sh.lost THEN 1 ELSE 0)

\* int(math.ceil(a))
FCeil(a) ==
  CeilOf(a.s, IF a.e >= 0 THEN [q |-> BShl(a.m, a.e), lost |-> FALSE]
              ELSE BShr(a.m, 0 - a.e))

\* round(a, 1): the decimal with one digit nearest to the exact value of a
\* (ties to even), then the binary64 nearest to that decimal.
Round1(a) ==
  IF a.e >= 0 THEN a
  ELSE FDivS(Canon(a.s, RoundHalf(BShr(BTrim(BMulS(a.m, 10, 0)), (0 - a.e) - 1), FALSE), 0),
             10)

\* ------------------------------------------------------------------------
\* planned.py: configuration
\* ------------------------------------------------------------------------
SUPERMARKETS == <<"Pak'nSave", "New World", "Countdown">>

Stores == {SUPERMARKETS[i] : i \in 1..Len(SUPERMARKETS)}

\* the keys of DEFAULT_PRICES, of PACKS and of compute_quantities' totals, in
\* their order in the source
PRODUCTS ==
  <<"Milk (1 L)", "Tea (50 bags)", "Bread (unit)", "Fruit (unit)",
    "Oats (portion)", "Yogurt (cup)", "Flour (1 kg)", "Eggs (each)",
    "Sugar (1 kg)", "Baking powder (100 g)", "Butter (250 g)">>

ProductKeys == {PRODUCTS[i] : i \in 1..Len(PRODUCTS)}

\* a row of a price table, from its three prices in cents as written (2.20)
PriceRow(pns, nw, cd) ==
  (SUPERMARKETS[1] :> Dec(pns, 100)) @@ (SUPERMARKETS[2] :> Dec(nw, 100))
    @@ (SUPERMARKETS[3] :> Dec(cd, 100))

DEFAULT_PRICES ==
  ("Milk (1 L)" :> PriceRow(220, 230, 240))
    @@ ("Tea (50 bags)" :> PriceRow(629, 649, 659))
    @@ ("Bread (unit)" :> PriceRow(50, 55, 60))
    @@ ("Fruit (unit)" :> PriceRow(60, 65, 70))
    @@ ("Oats (portion)" :> PriceRow(80, 85, 90))
    @@ ("Yogurt (cup)" :> PriceRow(90, 95, 100))
    @@ ("Flour (1 kg)" :> PriceRow(250, 270, 280))
    @@ ("Eggs (each)" :> PriceRow(90, 100, 110))
    @@ ("Sugar (1 kg)" :> PriceRow(280, 300, 310))
    @@ ("Baking powder (100 g)" :> PriceRow(250, 270, 290))
    @@ ("Butter (250 g)" :> PriceRow(500, 550, 580))

PACKS == [k \in ProductKeys |-> 1]

\* Needs: the dataclass, safety_margin at its default 0.10
Needs(mon_children, tue_children) ==
  [mon_children |-> mon_children, tue_children |-> tue_children,
   safety_margin |-> Dec(10, 100)]

\* dict.get(key, default)
Get(d, key, default) == IF key \in DOMAIN d THEN d[key] ELSE default

\* ------------------------------------------------------------------------
\* planned.py: quantities
\* ------------------------------------------------------------------------
\* A faulty variant of ceil_to_pack, which the rounding property must tell
\* from it: int(qty / pack_size), which drops the fraction instead of buying
\* the pack it starts.
TruncToPack(qty, pack_size) ==
  (IF qty.s = 1 THEN 0 - 1 ELSE 1)
    * BToNat(IF FDivS(qty, pack_size).e >= 0
               THEN BShl(FDivS(qty, pack_size).m, FDivS(qty, pack_size).e)
               ELSE BShr(FDivS(qty, pack_size).m, 0 - FDivS(qty, pack_size).e).q)

ceil_to_pack(qty, pack_size) == FCeil(FDivS(qty, pack_size))

Margin(needs) == FAdd(FromInt(1), needs.safety_margin)

per_child ==
  [k \in {"Milk (1 L)", "Bread (unit)", "Fruit (unit)", "Oats (portion)",
          "Yogurt (cup)"} |-> FromInt(1)]

\* the mon dict
MonItems(m, margin) ==
  LET need(k) == FMul(FMul(per_child[k], FromInt(m)), margin)
  IN  ("Milk (1 L)" :> need("Milk (1 L)"))
        @@ ("Tea (50 bags)" :> FromInt(1))
        @@ ("Bread (unit)" :> need("Bread (unit)"))
        @@ ("Fruit (unit)" :> need("Fruit (unit)"))
        @@ ("Oats (portion)" :> need("Oats (portion)"))
        @@ ("Yogurt (cup)" :> need("Yogurt (cup)"))

\* the tue dict
TueItems(t, margin) ==
  LET need(k) == FMul(FMul(per_child[k], FromInt(t)), margin)
  IN  ("Milk (1 L)" :> need("Milk (1 L)"))
        @@ ("Tea (50 bags)" :> FromInt(1))
        @@ ("Fruit (unit)" :> need("Fruit (unit)"))
        @@ ("Oats (portion)" :> need("Oats (portion)"))
        @@ ("Yogurt (cup)" :> need("Yogurt (cup)"))

\* scale = (t * margin) / 10.0
WaffleScale(t, margin) == FDivS(FMul(FromInt(t), margin), 10)

\* the waffles dict, in grams, millilitres and eggs
Waffles(scale) ==
      ("Flour (1 kg)" :> FMul(FromInt(500), scale))
        @@ ("Eggs (each)" :> FMul(FromInt(4), scale))
        @@ ("Milk for waffles (ml)" :> FMul(FromInt(500), scale))
        @@ ("Sugar (1 kg)" :> FMul(FromInt(50), scale))
        @@ ("Baking powder (100 g)" :> FMul(FromInt(10), scale))
        @@ ("Butter (250 g)" :> FMul(FromInt(50), scale))

\* the totals dict, before rounding
Totals(mon, tue, waffles) ==
  LET milk_total_L == FAdd(FAdd(mon["Milk (1 L)"], tue["Milk (1 L)"]),
                           FDivS(waffles["Milk for waffles (ml)"], 1000))
      flour_kg      == FDivS(waffles["Flour (1 kg)"], 1000)
      sugar_kg      == FDivS(waffles["Sugar (1 kg)"], 1000)
      bp_packs      == FDivS(waffles["Baking powder (100 g)"], 100)
      butter_blocks == FDivS(waffles["Butter (250 g)"], 250)
  IN  ("Milk (1 L)" :> milk_total_L)
        @@ ("Tea (50 bags)" :> FAdd(mon["Tea (50 bags)"], tue["Tea (50 bags)"]))
        @@ ("Bread (unit)" :> mon["Bread (unit)"])
        @@ ("Fruit (unit)" :> FAdd(mon["Fruit (unit)"], tue["Fruit (unit)"]))
        @@ ("Oats (portion)" :> FAdd(mon["Oats (portion)"], tue["Oats (portion)"]))
        @@ ("Yogurt (cup)" :> FAdd(mon["Yogurt (cup)"], tue["Yogurt (cup)"]))
        @@ ("Flour (1 kg)" :> flour_kg)
        @@ ("Eggs (each)" :> waffles["Eggs (each)"])
        @@ ("Sugar (1 kg)" :> sugar_kg)
        @@ ("Baking powder (100 g)" :> bp_packs)
        @@ ("Butter (250 g)" :> butter_blocks)

\* A dict that the program iterates over is kept as the sequence of its items
\* [k |-> key, v |-> value], in insertion order; a dict it only looks up is a
\* function.
Item(k, v) == [k |-> k, v |-> v]

\* rounded = {k: ceil_to_pack(v, PACKS[k]) for k, v in totals.items()}
RECURSIVE RoundedUpTo(_, _)
RoundedUpTo(totals, i) ==
  IF i = 0 THEN << >>
  ELSE Append(RoundedUpTo(totals, i - 1),
              Item(PRODUCTS[i], ceil_to_pack(totals[PRODUCTS[i]], PACKS[PRODUCTS[i]])))

Rounded(totals) == RoundedUpTo(totals, Len(PRODUCTS))

Quantities(mon, tue, waffles) ==
  [mon |-> mon, tue |-> tue, waffles |-> waffles,
   rounded |-> Rounded(Totals(mon, tue, waffles))]

compute_quantities(needs) ==
  LET m == needs.mon_children
      t == needs.tue_children
      Dicts(margin) ==
        Quantities(MonItems(m, margin), TueItems(t, margin),
                   Waffles(WaffleScale(t, margin)))
  IN  Dicts(Margin(needs))

\* ------------------------------------------------------------------------
\* planned.py: live prices
\* ------------------------------------------------------------------------
\* whether httpx and BeautifulSoup were imported when the module was loaded
VARIABLE HAS_SCRAPE_DEPS

SEARCH_ENDPOINTS ==
  ("Pak'nSave" :> "https://www.paknsave.co.nz/shop/search/products?search={q}")
    @@ ("New World" :> "https://www.newworld.co.nz/shop/search/products?search={q}")
    @@ ("Countdown" :> "https://www.woolworths.co.nz/shop/searchproducts?search={q}")

\* None: a value no number equals
None == [s |-> 2, m |-> <<1>>, e |-> 0]

\* A text is the sequence of its characters.
DigitChars == <<"0", "1", "2", "3", "4", "5", "6", "7", "8", "9">>

IsDigit(c) == \E d \in 1..10 : DigitChars[d] = c

DigitOf(c) == (CHOOSE d \in 1..10 : DigitChars[d] = c) - 1

\* \s
IsSpace(c) == c \in {" ", "\t", "\n"}

\* the first position from i on that holds no space
RECURSIVE SkipSpaces(_, _)
SkipSpaces(text, i) ==
  IF i <= Len(text) /\ IsSpace(text[i]) THEN SkipSpaces(text, i + 1) ELSE i

\* the first position from i on that holds no digit, i + most at the latest
RECURSIVE SkipDigits(_, _, _)
SkipDigits(text, i, most) ==
  IF most > 0 /\ i <= Len(text) /\ IsDigit(text[i])
    THEN SkipDigits(text, i + 1, most - 1)
    ELSE i

\* the number the digits text[i], .., text[j - 1] write
RECURSIVE DigitsValue(_, _, _)
DigitsValue(text, i, j) ==
  IF j <= i THEN 0 ELSE 10 * DigitsValue(text, i, j - 1) + DigitOf(text[j - 1])

\* (?:\.[0-9]{1,2})? after the digits that end before r: the position after
\* the one or two decimals, r when there is none
DecimalsEnd(text, r) ==
  IF r <= Len(text) /\ text[r] = "." THEN
    (IF SkipDigits(text, r + 1, 2) > r + 1 THEN SkipDigits(text, r + 1, 2) ELSE r)
  ELSE r

\* float(m.group(1)) for the group of the digits text[q .. r - 1] and the
\* decimals text[r + 1 .. z - 1]
GroupValue(text, q, r, z) ==
  IF z = r THEN FromInt(DigitsValue(text, q, r))
  ELSE Dec(DigitsValue(text, q, r) * 10^(z - r - 1) + DigitsValue(text, r + 1, z),
           10^(z - r - 1))

\* the match of \$\s*([0-9]+(?:\.[0-9]{1,2})?) at the "$" of position p, its
\* digits starting at q
MatchFrom(text, q) ==
  IF SkipDigits(text, q, Len(text)) = q THEN None
  ELSE GroupValue(text, q, SkipDigits(text, q, Len(text)),
                  DecimalsEnd(text, SkipDigits(text, q, Len(text))))

\* re.search from position p on: the leftmost match
RECURSIVE SearchPrice(_, _)
SearchPrice(text, p) ==
  IF p > Len(text) THEN None
  ELSE IF text[p] = "$" /\ MatchFrom(text, SkipSpaces(text, p + 1)) # None
    THEN MatchFrom(text, SkipSpaces(text, p + 1))
  ELSE SearchPrice(text, p + 1)

extract_price_nzd(text) == SearchPrice(text, 1)

\* the loop over texts: the first text that holds a price
RECURSIVE FirstPrice(_, _)
FirstPrice(texts, i) ==
  IF i > Len(texts) THEN None
  ELSE IF extract_price_nzd(texts[i]) # None THEN extract_price_nzd(texts[i])
  ELSE FirstPrice(texts, i + 1)

\* A faulty variant of fetch_price, which the fallback property must tell from
\* it: it scrapes whether or not the libraries were imported.
FetchPriceUnguarded(market, product_key, response) ==
  IF market \notin DOMAIN SEARCH_ENDPOINTS THEN None
  ELSE IF response.raised THEN None
  ELSE FirstPrice(response.texts, 1)

\* fetch_price, given what the request of the try block meets: an exception
\* (a network error, a timeout, a bad status), or a page whose elements
\* selected for a price have the texts response.texts
fetch_price(market, product_key, response) ==
  IF ~HAS_SCRAPE_DEPS THEN None
  ELSE IF market \notin DOMAIN SEARCH_ENDPOINTS THEN None
  ELSE IF response.raised THEN None
  ELSE FirstPrice(response.texts, 1)

\* The rows of the price tables are objects: heap[id] is the row (the inner
\* dict) of identity id. The rows of DEFAULT_PRICES are the objects
\* 1 .. Len(PRODUCTS), in the order of its keys.
DefaultRows == [i \in 1..Len(PRODUCTS) |-> DEFAULT_PRICES[PRODUCTS[i]]]

\* the table whose row of PRODUCTS[i] is the object refs[i]
RECURSIVE TableUpTo(_, _, _)
TableUpTo(heap, refs, i) ==
  IF i = 0 THEN << >>
  ELSE TableUpTo(heap, refs, i - 1) @@ (PRODUCTS[i] :> heap[refs[i]])

TableOf(heap, refs) == TableUpTo(heap, refs, Len(PRODUCTS))

\* DEFAULT_PRICES as it stands now
DefaultRefs == [i \in 1..Len(PRODUCTS) |-> i]

\* A faulty variant of CopiedRows, which the frame property must tell from it:
\* {k: DEFAULT_PRICES[k] for k in DEFAULT_PRICES}, a new table of the same rows.
SharedRows(heap) == [heap |-> heap, live |-> DefaultRefs]

\* live = {k: DEFAULT_PRICES[k].copy() for k in DEFAULT_PRICES}: a new row per
\* product, equal to the default row
CopiedRows(heap) ==
  [heap |-> heap \o [i \in 1..Len(PRODUCTS) |-> heap[DefaultRefs[i]]],
   live |-> [i \in 1..Len(PRODUCTS) |-> Len(heap) + i]]

\* live[product][market] = p when p is not None
Stored(heap, id, market, p) ==
  IF p # None THEN [heap EXCEPT ![id] = (market :> p) @@ heap[id]] ELSE heap

\* ------------------------------------------------------------------------
\* planned.py: costs
\* ------------------------------------------------------------------------
\* Faulty variants of CostOfLine, which the cost properties must tell from it.
\* A line is dropped for every store as soon as one store has no price for it:
CostOfLineAllOrNothing(totals, item, prices) ==
  LET unit_price_by_market == Get(prices, item.k, << >>)
      Total(m) ==
        IF \A n \in Stores : n \in DOMAIN unit_price_by_market
          THEN FAdd(totals[m], FMul(FromInt(item.v), unit_price_by_market[m]))
          ELSE totals[m]
  IN  (SUPERMARKETS[1] :> Total(SUPERMARKETS[1]))
        @@ (SUPERMARKETS[2] :> Total(SUPERMARKETS[2]))
        @@ (SUPERMARKETS[3] :> Total(SUPERMARKETS[3]))

\* The cost of a line is taken off the total:
CostOfLineRefund(totals, item, prices) ==
  LET unit_price_by_market == Get(prices, item.k, << >>)
      Total(m) ==
        IF m \in DOMAIN unit_price_by_market
          THEN FAdd(totals[m], FNeg(FMul(FromInt(item.v), unit_price_by_market[m])))
          ELSE totals[m]
  IN  (SUPERMARKETS[1] :> Total(SUPERMARKETS[1]))
        @@ (SUPERMARKETS[2] :> Total(SUPERMARKETS[2]))
        @@ (SUPERMARKETS[3] :> Total(SUPERMARKETS[3]))

\* one pass of the outer loop of cost_by_super: a store without a price for
\* the product is skipped
CostOfLine(totals, item, prices) ==
  LET unit_price_by_market == Get(prices, item.k, << >>)
      Total(m) ==
        IF m \in DOMAIN unit_price_by_market
          THEN FAdd(totals[m], FMul(FromInt(item.v), unit_price_by_market[m]))
          ELSE totals[m]
  IN  (SUPERMARKETS[1] :> Total(SUPERMARKETS[1]))
        @@ (SUPERMARKETS[2] :> Total(SUPERMARKETS[2]))
        @@ (SUPERMARKETS[3] :> Total(SUPERMARKETS[3]))

RECURSIVE CostLoop(_, _, _, _)
CostLoop(totals, rounded, prices, i) ==
  IF i > Len(rounded) THEN totals
  ELSE CostLoop(CostOfLine(totals, rounded[i], prices), rounded, prices, i + 1)

cost_by_super(rounded, prices) ==
  CostLoop((SUPERMARKETS[1] :> Zero) @@ (SUPERMARKETS[2] :> Zero)
             @@ (SUPERMARKETS[3] :> Zero), rounded, prices, 1)

\* Faulty variants of the selection, which the selection properties must tell
\* from it.  The last key of the least value:
RECURSIVE MinLoopLast(_, _, _, _)
MinLoopLast(totals, order, best, i) ==
  IF i > Len(order) THEN best
  ELSE MinLoopLast(totals, order,
                   IF FLess(totals[best], totals[order[i]]) THEN best ELSE order[i],
                   i + 1)

\* The first key, whatever the values:
FirstListed(totals, order) == order[1]

\* min(totals, key=totals.get) over a dict whose keys are in the order `order`:
\* the first key of the least value
RECURSIVE MinLoop(_, _, _, _)
MinLoop(totals, order, best, i) ==
  IF i > Len(order) THEN best
  ELSE MinLoop(totals, order,
               IF FLess(totals[order[i]], totals[best]) THEN order[i] ELSE best,
               i + 1)

Cheapest(totals, order) == MinLoop(totals, order, order[1], 2)

\* ------------------------------------------------------------------------
\* api.py: configuration
\* ------------------------------------------------------------------------
PRICES ==
  ("milk" :> PriceRow(220, 230, 240))
    @@ ("tea" :> PriceRow(629, 649, 659))
    @@ ("bread" :> PriceRow(50, 55, 60))
    @@ ("fruit" :> PriceRow(60, 65, 70))
    @@ ("oats" :> PriceRow(80, 85, 90))
    @@ ("yogurt" :> PriceRow(90, 95, 100))
    @@ ("flour" :> PriceRow(250, 270, 280))
    @@ ("eggs" :> PriceRow(90, 100, 110))
    @@ ("sugar" :> PriceRow(280, 300, 310))
    @@ ("baking_powder" :> PriceRow(250, 270, 290))
    @@ ("butter" :> PriceRow(500, 550, 580))
    @@ ("milo" :> PriceRow(780, 820, 840))

WAFFLE_RECIPE ==
  ("flour" :> 500) @@ ("eggs" :> 4) @@ ("milk" :> 500) @@ ("sugar" :> 50)
    @@ ("baking_powder" :> 10) @@ ("butter" :> 50)

EXPECTED_KCAL_PER_CHILD == 450

CALORIES ==
  ("milk" :> 640) @@ ("yogurt" :> 60) @@ ("cheese" :> 90) @@ ("chicken" :> 165)
    @@ ("bread" :> 80) @@ ("bread_roll" :> 120) @@ ("hashbrown" :> 130)
    @@ ("pancake" :> 110) @@ ("fruit" :> 70) @@ ("oats" :> 150)
    @@ ("cereal" :> 120) @@ ("butter" :> 35) @@ ("milo" :> 120) @@ ("jam" :> 20)
    @@ ("maple_syrup" :> 18) @@ ("choc_chips" :> 50) @@ ("berries" :> 40)

\* ------------------------------------------------------------------------
\* Ordered dicts
\* ------------------------------------------------------------------------
HasKey(d, key) == \E i \in 1..Len(d) : d[i].k = key

ItemGet(d, key, default) ==
  IF HasKey(d, key) THEN d[CHOOSE i \in 1..Len(d) : d[i].k = key].v ELSE default

\* {**a, **b}: a's keys keep their place and take b's value, b's other keys follow
RECURSIVE Overwritten(_, _, _)
Overwritten(a, b, i) ==
  IF i = 0 THEN << >>
  ELSE Append(Overwritten(a, b, i - 1), Item(a[i].k, ItemGet(b, a[i].k, a[i].v)))

RECURSIVE NewKeys(_, _, _)
NewKeys(a, b, i) ==
  IF i = 0 THEN << >>
  ELSE IF HasKey(a, b[i].k) THEN NewKeys(a, b, i - 1)
  ELSE Append(NewKeys(a, b, i - 1), b[i])

MergeDicts(a, b) == Overwritten(a, b, Len(a)) \o NewKeys(a, b, Len(b))

\* ------------------------------------------------------------------------
\* api.py: GET /jit/plan
\* ------------------------------------------------------------------------
PLAN_STORES == <<"Pak'nSave", "New World", "Countdown">>

MondayItems(mon) ==
  << Item("milk", FMul(FromInt(mon), Dec(25, 100))),
     Item("tea", FMul(FromInt(mon), Dec(2, 100))),
     Item("bread", FMul(FromInt(mon), Dec(5, 10))),
     Item("fruit", FromInt(mon * 1)),
     Item("oats", FromInt(mon * 1)),
     Item("yogurt", FromInt(mon * 1)),
     Item("milo", FMul(FromInt(mon), Dec(2, 100))) >>

\* waffle = {k: v * t_factor for k, v in WAFFLE_RECIPE.items()}, t_factor = tue / 10
PlanWaffle(t_factor) ==
  ("flour" :> FMul(FromInt(WAFFLE_RECIPE["flour"]), t_factor))
    @@ ("eggs" :> FMul(FromInt(WAFFLE_RECIPE["eggs"]), t_factor))
    @@ ("milk" :> FMul(FromInt(WAFFLE_RECIPE["milk"]), t_factor))
    @@ ("sugar" :> FMul(FromInt(WAFFLE_RECIPE["sugar"]), t_factor))
    @@ ("baking_powder" :> FMul(FromInt(WAFFLE_RECIPE["baking_powder"]), t_factor))
    @@ ("butter" :> FMul(FromInt(WAFFLE_RECIPE["butter"]), t_factor))

TuesdayItems(tue, waffle) ==
  << Item("milk", FAdd(FMul(FromInt(tue), Dec(25, 100)), FDivS(waffle["milk"], 1000))),
     Item("tea", FMul(FromInt(tue), Dec(2, 100))),
     Item("fruit", FromInt(tue * 1)),
     Item("oats", FromInt(tue * 1)),
     Item("yogurt", FromInt(tue * 1)),
     Item("flour", FDivS(waffle["flour"], 1000)),
     Item("eggs", waffle["eggs"]),
     Item("sugar", FDivS(waffle["sugar"], 1000)),
     Item("baking_powder", FDivS(waffle["baking_powder"], 10)),
     Item("butter", FDivS(waffle["butter"], 50)),
     Item("milo", FMul(FromInt(tue), Dec(2, 100))) >>

\* {k: v * safety_margin for k, v in items.items()}
RECURSIVE WithMargin(_, _, _)
WithMargin(items, safety_margin, i) ==
  IF i = 0 THEN << >>
  ELSE Append(WithMargin(items, safety_margin, i - 1),
              Item(items[i].k, FMul(items[i].v, safety_margin)))

\* the dict the pricing loop iterates over
PricedItems(monday_items, tuesday_items) == MergeDicts(monday_items, tuesday_items)

\* the inner loop of the totals, for one store
RECURSIVE PlanTotal(_, _, _, _)
PlanTotal(items, store, total, i) ==
  IF i > Len(items) THEN total
  ELSE PlanTotal(items, store,
                 IF items[i].k \in DOMAIN PRICES
                   THEN FAdd(total, FMul(PRICES[items[i].k][store], items[i].v))
                   ELSE total,
                 i + 1)

PlanTotals(items) ==
  (PLAN_STORES[1] :> PlanTotal(items, PLAN_STORES[1], Zero, 1))
    @@ (PLAN_STORES[2] :> PlanTotal(items, PLAN_STORES[2], Zero, 1))
    @@ (PLAN_STORES[3] :> PlanTotal(items, PLAN_STORES[3], Zero, 1))

\* the response of plan(mon, tue, live), without the e-mail text; live is not read
plan(mon, tue, live) ==
  LET safety_margin == Dec(110, 100)
      Response(monday_items, tuesday_items, totals) ==
        [attendance |-> [monday |-> mon, tuesday |-> tue],
         monday_items |-> monday_items, tuesday_items |-> tuesday_items,
         totals |-> totals, cheapest |-> Cheapest(totals, PLAN_STORES)]
      Price(monday_items, tuesday_items) ==
        Response(monday_items, tuesday_items,
                 PlanTotals(PricedItems(monday_items, tuesday_items)))
      Scale(monday, tuesday) ==
        Price(WithMargin(monday, safety_margin, Len(monday)),
              WithMargin(tuesday, safety_margin, Len(tuesday)))
  IN  Scale(MondayItems(mon), TuesdayItems(tue, PlanWaffle(FDivS(FromInt(tue), 10))))

\* ------------------------------------------------------------------------
\* api.py: POST /jit/consumption
\* ------------------------------------------------------------------------
\* str.capitalize() on the day labels of the model
Capitalize(day) ==
  CASE day = "monday" -> "Monday"
    [] day = "unspecified" -> "Unspecified"
    [] OTHER -> day

\* A division by zero raises ZeroDivisionError: a value no number equals, which
\* makes the handler fail (HTTP 500) instead of answering.
ZeroDivisionError == [s |-> 2, m |-> << >>, e |-> 0]

Raised(x) == x = ZeroDivisionError

\* a / d for an int d >= 0
PyDiv(a, d) == IF d = 0 THEN ZeroDivisionError ELSE FDivS(a, d)

\* the loop over items.items(): the details and the running total
RECURSIVE KcalDetails(_, _)
KcalDetails(items, i) ==
  IF i = 0 THEN << >>
  ELSE LET Line(qty, kcal_per_unit) ==
             Item(items[i].k,
                  [quantity |-> qty, kcal_each |-> kcal_per_unit,
                   kcal_total |-> FMul(qty, FromInt(kcal_per_unit))])
       IN  Append(KcalDetails(items, i - 1),
                  Line(items[i].v, Get(CALORIES, items[i].k, 0)))

\* A faulty variant of KcalTotal, which the calorie properties must tell from
\* it: the last item of the details is left out.
RECURSIVE KcalTotalShort(_, _, _)
KcalTotalShort(detail, total, i) ==
  IF i >= Len(detail) THEN total
  ELSE KcalTotalShort(detail, FAdd(total, detail[i].v.kcal_total), i + 1)

RECURSIVE KcalTotal(_, _, _)
KcalTotal(detail, total, i) ==
  IF i > Len(detail) THEN total
  ELSE KcalTotal(detail, FAdd(total, detail[i].v.kcal_total), i + 1)

\* A faulty variant of AvgPerChild, which the guard properties must tell from
\* it: the division is made whatever the children.
AvgUnguarded(actual_total_kcal, children) == PyDiv(actual_total_kcal, children)

\* actual_total_kcal / children if children > 0 else 0
AvgPerChild(actual_total_kcal, children) ==
  IF children > 0 THEN PyDiv(actual_total_kcal, children) ELSE Zero

\* (avg_per_child / EXPECTED_KCAL_PER_CHILD * 100) if children > 0 else 0
PercentOfTarget(avg_per_child, children) ==
  IF children > 0
    THEN FMul(PyDiv(avg_per_child, EXPECTED_KCAL_PER_CHILD), FromInt(100))
    ELSE Zero

Failure == [status |-> 500, body |-> << >>]

record_consumption(data) ==
  LET day      == Capitalize(Get(data, "day", "unspecified"))
      children == Get(data, "children", 0)
      items    == Get(data, "items", << >>)
      expected_total_kcal == children * EXPECTED_KCAL_PER_CHILD
      Body(detail, actual_total_kcal, avg_per_child, percent_of_target) ==
        [day |-> day, children |-> children,
         expected_total_kcal |-> Round1(FromInt(expected_total_kcal)),
         actual_total_kcal |-> Round1(actual_total_kcal),
         average_per_child |-> Round1(avg_per_child),
         percent_of_target |-> Round1(percent_of_target),
         details |-> detail]
      Answer(detail, actual_total_kcal, avg_per_child) ==
        IF Raised(avg_per_child) THEN Failure
        ELSE [status |-> 200,
              body |-> Body(detail, actual_total_kcal, avg_per_child,
                            PercentOfTarget(avg_per_child, children))]
      Average(detail, actual_total_kcal) ==
        Answer(detail, actual_total_kcal, AvgPerChild(actual_total_kcal, children))
      Total(detail) == Average(detail, KcalTotal(detail, Zero, 1))
  IN  Total(KcalDetails(items, Len(items)))

\* ------------------------------------------------------------------------
\* api.py: POST /jit/report
\* ------------------------------------------------------------------------
\* actual.get("monday", {}).get("children", 0) + actual.get("tuesday", {}).get("children", 0)
ActualChildren(actual) ==
  Get(ItemGet(actual, "monday", << >>), "children", 0)
    + Get(ItemGet(actual, "tuesday", << >>), "children", 0)

\* round(total_day_kcal / children, 1) if children else 0
DayAverage(total_day_kcal, children) ==
  IF children # 0 THEN PyDiv(total_day_kcal, children) ELSE Zero

\* details[day] for one day of actual
DayDetails(data) ==
  LET children == Get(data, "children", 0)
      Entry(detail_day, total_day_kcal, avg) ==
        [children |-> children, total_kcal |-> total_day_kcal,
         average_per_child |-> IF Raised(avg) THEN avg ELSE Round1(avg),
         details |-> detail_day]
      Average(detail_day, total_day_kcal) ==
        Entry(detail_day, total_day_kcal, DayAverage(total_day_kcal, children))
      Total(detail_day) == Average(detail_day, KcalTotal(detail_day, Zero, 1))
      Lines(items) == Total(KcalDetails(items, Len(items)))
  IN  Lines(Get(data, "items", << >>))

\* the loop over actual.items(): the details of every day
RECURSIVE ReportDetails(_, _)
ReportDetails(actual, i) ==
  IF i = 0 THEN << >>
  ELSE Append(ReportDetails(actual, i - 1), Item(actual[i].k, DayDetails(actual[i].v)))

RECURSIVE RealKcal(_, _, _)
RealKcal(details, total, i) ==
  IF i > Len(details) THEN total
  ELSE RealKcal(details, FAdd(total, details[i].v.total_kcal), i + 1)

\* round(total_real_kcal / actual_children, 1) if actual_children else 0
ReportAverage(total_real_kcal, actual_children) ==
  IF actual_children # 0
    THEN Round1(PyDiv(total_real_kcal, actual_children))
    ELSE Zero

\* round(avg_kcal_per_child / EXPECTED_KCAL_PER_CHILD * 100, 1) if actual_children else 0
ReportPercent(avg_kcal_per_child, actual_children) ==
  IF actual_children # 0
    THEN Round1(FMul(PyDiv(avg_kcal_per_child, EXPECTED_KCAL_PER_CHILD), FromInt(100)))
    ELSE Zero

generate_report(payload) ==
  LET mon    == Get(payload, "mon", 0)
      tue    == Get(payload, "tue", 0)
      actual == Get(payload, "actual", << >>)
      expected_children == mon + tue
      actual_children   == ActualChildren(actual)
      expected_kcal     == expected_children * EXPECTED_KCAL_PER_CHILD
      Body(details, total_real_kcal, avg_kcal_per_child) ==
        [expected_children |-> expected_children,
         actual_children |-> actual_children,
         expected_kcal_total |-> expected_kcal,
         actual_kcal_total |-> total_real_kcal,
         average_per_child |-> avg_kcal_per_child,
         percent_of_target |-> ReportPercent(avg_kcal_per_child, actual_children),
         details |-> details]
      Answer(details, total_real_kcal) ==
        IF \E i \in 1..Len(details) : Raised(details[i].v.average_per_child)
          THEN Failure
          ELSE [status |-> 200,
                body |-> Body(details, total_real_kcal,
                              ReportAverage(total_real_kcal, actual_children))]
      Total(details) == Answer(details, RealKcal(details, Zero, 1))
  IN  Total(ReportDetails(actual, Len(actual)))

\* ------------------------------------------------------------------------
\* Bounds of the model
\* ------------------------------------------------------------------------
\* attendance forecasts run from -1 (argparse's and FastAPI's int accept it);
\* -3 is a forecast whose purchase costs less than nothing, and 25 is the roll
\* of the club's example
MaxAttendance == 10
\* lines of a purchase list handed to cost_by_super, and their quantities
MaxLines == 2
MaxQty == 1
\* children of a consumption record, and its items
MaxChildren == 30
MaxItems == 2
\* days of a report's actual mapping, and the children of one of its days
MaxDays == 2
MaxDayChildren == 2

\* quantities handed to ceil_to_pack run over the tenths between -MaxWhole and
\* MaxWhole, and its pack sizes from 1 to MaxPack
MaxWhole == 3
MaxPack == 2
\* lookups of one call of prices_for_all that find a price
MaxLive == 2

Attendance == ((0 - 1)..MaxAttendance) \cup {0 - 3, 25}

RECURSIVE SeqsUpTo(_, _)
SeqsUpTo(S, n) ==
  IF n = 0 THEN {<< >>}
  ELSE LET Longer(shorter) ==
             shorter \cup {Append(q, x) : q \in {r \in shorter : Len(r) = n - 1}, x \in S}
       IN  Longer(SeqsUpTo(S, n - 1))

\* the ordered dicts of at most n items with keys in K and values in V
Dicts(K, V, n) ==
  {d \in SeqsUpTo([k : K, v : V], n) :
     \A i, j \in 1..Len(d) : i # j => d[i].k # d[j].k}

\* ------------------------------------------------------------------------
\* Inputs of a direct call of cost_by_super
\* ------------------------------------------------------------------------
\* the products of the purchase lists: two of the table and one no table prices
ListProducts == {"Milk (1 L)", "Tea (50 bags)", "Saffron (1 g)"}

\* quantities run from -1: compute_quantities rounds a negative forecast to it
PurchaseLists == Dicts(ListProducts, (0 - 1)..MaxQty, MaxLines)

PriceChoices == {Dec(50, 100), Dec(60, 100)}

\* a row may lack any store
PriceRows == UNION {[S -> PriceChoices] : S \in SUBSET Stores}

CompleteRows == [Stores -> PriceChoices]

\* price tables: none, milk alone with any row, or milk and tea with complete rows
PriceTables ==
  {("Milk (1 L)" :> r) : r \in PriceRows}
    \cup {("Milk (1 L)" :> r) @@ ("Tea (50 bags)" :> c) : r \in CompleteRows, c \in CompleteRows}
    \cup {<< >>}

\* ------------------------------------------------------------------------
\* Inputs of a direct call of ceil_to_pack
\* ------------------------------------------------------------------------
\* whole quantities (2.0) and fractions of them (0.1, -1.5)
PackQuantities == {Dec(n, 10) : n \in (0 - 10 * MaxWhole)..(10 * MaxWhole)}

PackSizes == 1..MaxPack

\* ------------------------------------------------------------------------
\* What a lookup of fetch_price meets
\* ------------------------------------------------------------------------
\* the texts of the elements selected for a price, in the order of the page:
\* none, one without a price, "$1.99", a price after a text without one
\* ("per kg", "$ 2 ea"), and a price after a "$" that starts none
\* ("Special", "$.50 off $1.999")
PageTexts ==
  { << >>,
    << <<"S", "p", "e", "c", "i", "a", "l">> >>,
    << <<"$", "1", ".", "9", "9">> >>,
    << <<"p", "e", "r", " ", "k", "g">>, <<"$", " ", "2", " ", "e", "a">> >>,
    << <<"S", "p", "e", "c", "i", "a", "l">>,
       <<"$", ".", "5", "0", " ", "o", "f", "f", " ", "$", "1", ".", "9", "9", "9">> >> }

Responses ==
  {[raised |-> TRUE, texts |-> << >>]}
    \cup {[raised |-> FALSE, texts |-> t] : t \in PageTexts}

\* ------------------------------------------------------------------------
\* Inputs of the nutrition handlers
\* ------------------------------------------------------------------------
\* two foods of the calorie table and one it does not know
Foods == {"milk", "chicken", "waffle"}

Quantities25 == {Dec(25, 100), FromInt(1), FromInt(8)}

ItemDicts == Dicts(Foods, Quantities25, MaxItems)

\* the bodies of POST /jit/consumption: a full record, or an empty object
ConsumptionBodies ==
  {[day |-> "monday", children |-> c, items |-> it] :
     c \in 0..MaxChildren, it \in ItemDicts}
    \cup {<< >>}

DayKeys == {"monday", "tuesday", "wednesday"}

DayItems ==
  { << >>, <<Item("milk", FromInt(8))>>,
    <<Item("chicken", Dec(25, 100)), Item("waffle", FromInt(1))>> }

DayRecords == [children : 0..MaxDayChildren, items : DayItems]

\* the bodies of POST /jit/report
ReportBodies ==
  {[mon |-> 25, tue |-> 30, actual |-> a] : a \in Dicts(DayKeys, DayRecords, MaxDays)}
    \cup {<< >>}

\* ------------------------------------------------------------------------
\* State: one request at a time, from the call to the response
\* ------------------------------------------------------------------------
VARIABLES pc, op, args, ret

\* heap: the rows of the price tables that exist, those of DEFAULT_PRICES first;
\* frame: the locals of prices_for_all while it runs (live, and the product and
\* the market of the next lookup); fetched: the calls of fetch_price it has
\* made, with what each returned
VARIABLES heap, frame, fetched

vars == <<pc, op, args, ret, HAS_SCRAPE_DEPS, heap, frame, fetched>>

pricer == <<HAS_SCRAPE_DEPS, heap, frame, fetched>>

Init ==
  /\ pc = "idle"
  /\ op = "none"
  /\ args = << >>
  /\ ret = << >>
  /\ HAS_SCRAPE_DEPS \in BOOLEAN
  /\ heap = DefaultRows
  /\ frame = << >>
  /\ fetched = << >>

\* a command line is parsed, a request is routed to its handler, or
\* cost_by_super is called directly, with one of the arguments given
Call(name, arguments) ==
  /\ pc = "idle"
  /\ pc' = "called"
  /\ op' = name
  /\ args' \in arguments
  /\ ret' = << >>
  /\ UNCHANGED pricer

Request ==
  \/ Call("main", [mon : Attendance, tue : Attendance, live : {FALSE}])
  \/ Call("cost", [rounded : PurchaseLists, prices : PriceTables])
  \/ Call("ceil_to_pack", [qty : PackQuantities, pack_size : PackSizes])
  \/ Call("prices_for_all", [timeout : {FromInt(10)}])
  \/ Call("plan", [mon : Attendance, tue : Attendance, live : BOOLEAN])
  \/ Call("consumption", [data : ConsumptionBodies])
  \/ Call("report", [payload : ReportBodies])

Return(value) ==
  /\ pc' = "done"
  /\ ret' = value
  /\ UNCHANGED <<op, args, pricer>>

\* the __main__ block without --live: quantities, costs at the default prices,
\* the cheapest store of the summary and of the e-mail draft
Main ==
  /\ pc = "called" /\ op = "main"
  /\ LET needs    == Needs(args.mon, args.tue)
         prices   == DEFAULT_PRICES
         served   == needs.mon_children + needs.tue_children
         Summary(q, totals) ==
           [q |-> q, totals |-> totals, served |-> served,
            cheapest |-> Cheapest(totals, SUPERMARKETS),
            email_cheapest |-> Cheapest(totals, SUPERMARKETS)]
         Costs(q) == Summary(q, cost_by_super(q.rounded, prices))
     IN  Return(Costs(compute_quantities(needs)))

\* a direct call of cost_by_super, followed by the selection of the cheapest
\* store as __main__ and email_draft make it
CostBySuper ==
  /\ pc = "called" /\ op = "cost"
  /\ LET Summary(totals) ==
           [totals |-> totals, cheapest |-> Cheapest(totals, SUPERMARKETS)]
     IN  Return(Summary(cost_by_super(args.rounded, args.prices)))

\* a direct call of ceil_to_pack
CeilToPack ==
  /\ pc = "called" /\ op = "ceil_to_pack"
  /\ Return(ceil_to_pack(args.qty, args.pack_size))

\* prices_for_all is entered: live is built
PricesForAll ==
  /\ pc = "called" /\ op = "prices_for_all"
  /\ pc' = "fetching"
  /\ heap' = CopiedRows(heap).heap
  /\ frame' = [live |-> CopiedRows(heap).live, product |-> 1, market |-> 1]
  /\ fetched' = << >>
  /\ UNCHANGED <<op, args, ret, HAS_SCRAPE_DEPS>>

\* the lookups of this call that found a price
Found == Cardinality({n \in 1..Len(fetched) : fetched[n].p # None})

\* the frame at the next turn of the loops
Advanced ==
  IF frame.market < Len(SUPERMARKETS) THEN [frame EXCEPT !.market = @ + 1]
  ELSE [frame EXCEPT !.product = @ + 1, !.market = 1]

\* one turn of the inner loop with the price p that fetch_price returned
Looked(market, product_key, p) ==
  /\ p = None \/ Found < MaxLive
  /\ heap' = Stored(heap, frame.live[frame.product], market, p)
  /\ fetched' = Append(fetched, [market |-> market, product |-> product_key, p |-> p])
  /\ frame' = Advanced

\* one lookup of prices_for_all, whatever the site answers
FetchPrice ==
  /\ pc = "fetching" /\ frame.product <= Len(PRODUCTS)
  /\ \E response \in Responses :
       Looked(SUPERMARKETS[frame.market], PRODUCTS[frame.product],
              fetch_price(SUPERMARKETS[frame.market], PRODUCTS[frame.product], response))
  /\ UNCHANGED <<pc, op, args, ret, HAS_SCRAPE_DEPS>>

\* the loops are over: live is returned
PricesReturn ==
  /\ pc = "fetching" /\ frame.product > Len(PRODUCTS)
  /\ Return(TableOf(heap, frame.live))

Plan ==
  /\ pc = "called" /\ op = "plan"
  /\ Return(plan(args.mon, args.tue, args.live))

RecordConsumption ==
  /\ pc = "called" /\ op = "consumption"
  /\ Return(record_consumption(args.data))

GenerateReport ==
  /\ pc = "called" /\ op = "report"
  /\ Return(generate_report(args.payload))

\* the response is out (the process exits): nothing is kept between requests
\* but the module's globals; live and the record of its lookups are dropped
Respond ==
  /\ pc = "done"
  /\ pc' = "idle"
  /\ op' = "none"
  /\ args' = << >>
  /\ ret' = << >>
  /\ heap' = SubSeq(heap, 1, Len(PRODUCTS))
  /\ frame' = << >>
  /\ fetched' = << >>
  /\ UNCHANGED HAS_SCRAPE_DEPS

Next ==
  \/ Request
  \/ Main
  \/ CostBySuper
  \/ CeilToPack
  \/ PricesForAll
  \/ FetchPrice
  \/ PricesReturn
  \/ Plan
  \/ RecordConsumption
  \/ GenerateReport
  \/ Respond

Spec == Init /\ [][Next]_vars

\* ------------------------------------------------------------------------
\* Properties
\* ------------------------------------------------------------------------
\* the handler `name` has returned
Done(name) == pc = "done" /\ op = name

Thousandth == Dec(1, 1000)

Magnitude(a) == [a EXCEPT !.s = 0]

\* a and b differ by less than a thousandth: the same amount up to the
\* rounding of binary floating point
Near(a, b) == FLess(Magnitude(FAdd(a, FNeg(b))), Thousandth)

\* the amount of key k in an ordered dict, 0 when it is absent
Amount(items, k) == ItemGet(items, k, Zero)

\* for every key of `keys`, the Monday amount plus the Tuesday amount
RECURSIVE BothDays(_, _, _, _)
BothDays(keys, monday_items, tuesday_items, i) ==
  IF i = 0 THEN << >>
  ELSE Append(BothDays(keys, monday_items, tuesday_items, i - 1),
              Item(keys[i].k, FAdd(Amount(monday_items, keys[i].k),
                                   Amount(tuesday_items, keys[i].k))))

\* the purchase quantity compute_quantities returns for product k
Bought(q, k) == ItemGet(q.rounded, k, 0)

\* C1, compute_quantities: the quantity bought of every product is the Monday
\* amount plus the Tuesday amount rounded up, bread being Monday's alone and
\* milk including the litres of the waffles.
C1_QuantitiesSumBothDays ==
  Done("main") /\ args.mon >= 0 /\ args.tue >= 0 =>
    /\ \A k \in {"Tea (50 bags)", "Fruit (unit)", "Oats (portion)", "Yogurt (cup)"} :
         Bought(ret.q, k) = FCeil(FAdd(ret.q.mon[k], ret.q.tue[k]))
    /\ Bought(ret.q, "Bread (unit)") = FCeil(ret.q.mon["Bread (unit)"])
    /\ Bought(ret.q, "Milk (1 L)")
         = FCeil(FAdd(FAdd(ret.q.mon["Milk (1 L)"], ret.q.tue["Milk (1 L)"]),
                      FDivS(ret.q.waffles["Milk for waffles (ml)"], 1000)))

\* C1, GET /jit/plan: the total of every store is the sum of price times
\* (Monday amount + Tuesday amount) over the ingredients of the response.
C1_PlanSumsBothDays ==
  Done("plan") /\ args.mon >= 0 /\ args.tue >= 0 =>
    \A s \in Stores :
      Near(ret.totals[s],
           PlanTotal(BothDays(MergeDicts(ret.monday_items, ret.tuesday_items),
                              ret.monday_items, ret.tuesday_items,
                              Len(MergeDicts(ret.monday_items, ret.tuesday_items))),
                     s, Zero, 1))

\* C1: for every attendance the quantity of each ingredient priced into the
\* per-store totals is its Monday amount plus its Tuesday amount, in
\* compute_quantities and in the totals of GET /jit/plan.
C1_PricedBothDays == C1_QuantitiesSumBothDays /\ C1_PlanSumsBothDays

\* C1: GET /jit/plan?mon=1&tue=0 has answered: milk is needed on Monday, and
\* every total is the price of Monday's bread alone.
C1_MondayMilkUnpriced ==
  /\ Done("plan") /\ args.mon = 1 /\ args.tue = 0
  /\ ~IsZero(Amount(ret.monday_items, "milk"))
  /\ \A s \in Stores :
       ret.totals[s] = FMul(PRICES["bread"][s], Amount(ret.monday_items, "bread"))

\* the days of a forecast that have attendance
ActiveDays(mon, tue) == (IF mon > 0 THEN 1 ELSE 0) + (IF tue > 0 THEN 1 ELSE 0)

WaffleProducts ==
  {"Flour (1 kg)", "Eggs (each)", "Sugar (1 kg)", "Baking powder (100 g)",
   "Butter (250 g)"}

\* C2: in compute_quantities a day without attendance contributes nothing:
\* tea is bought 1 pack per day that has attendance, Monday's bread is 0 when
\* Monday has none and the waffle products are 0 when Tuesday has none.
C2_ZeroDayContributesZero ==
  Done("main") /\ args.mon >= 0 /\ args.tue >= 0 =>
    /\ Bought(ret.q, "Tea (50 bags)") = ActiveDays(args.mon, args.tue)
    /\ args.mon = 0 => Bought(ret.q, "Bread (unit)") = 0
    /\ args.tue = 0 => \A k \in WaffleProducts : Bought(ret.q, k) = 0

\* C2: the forecast (mon=25, tue=0) of the claim has been planned: the waffle
\* products are 0 and 2 packs of tea are bought.
C2_MondayOnlyBuysTwoTeas ==
  /\ Done("main") /\ args.mon = 25 /\ args.tue = 0
  /\ \A k \in WaffleProducts : Bought(ret.q, k) = 0
  /\ Bought(ret.q, "Tea (50 bags)") = 2

\* scale = t x 1.10 / 10
ClaimedScale(t) == FDivS(FMul(FromInt(t), Dec(110, 100)), 10)

\* grams (or eggs, or millilitres) x scale / the size of the purchase unit
Converted(amount, scale, unit) == FDivS(FMul(FromInt(amount), scale), unit)

\* C3, compute_quantities: the waffles dict is the recipe times the scale and
\* the waffle products are bought by the converted amount rounded up.
C3_QuantitiesWaffles ==
  Done("main") /\ args.mon >= 0 /\ args.tue >= 0 =>
    /\ Near(ret.q.waffles["Flour (1 kg)"], Converted(500, ClaimedScale(args.tue), 1))
    /\ Near(ret.q.waffles["Eggs (each)"], Converted(4, ClaimedScale(args.tue), 1))
    /\ Near(ret.q.waffles["Milk for waffles (ml)"], Converted(500, ClaimedScale(args.tue), 1))
    /\ Near(ret.q.waffles["Sugar (1 kg)"], Converted(50, ClaimedScale(args.tue), 1))
    /\ Near(ret.q.waffles["Baking powder (100 g)"], Converted(10, ClaimedScale(args.tue), 1))
    /\ Near(ret.q.waffles["Butter (250 g)"], Converted(50, ClaimedScale(args.tue), 1))
    /\ Bought(ret.q, "Flour (1 kg)") = FCeil(Converted(500, ClaimedScale(args.tue), 1000))
    /\ Bought(ret.q, "Eggs (each)") = FCeil(Converted(4, ClaimedScale(args.tue), 1))
    /\ Bought(ret.q, "Sugar (1 kg)") = FCeil(Converted(50, ClaimedScale(args.tue), 1000))
    /\ Bought(ret.q, "Baking powder (100 g)") = FCeil(Converted(10, ClaimedScale(args.tue), 100))
    /\ Bought(ret.q, "Butter (250 g)") = FCeil(Converted(50, ClaimedScale(args.tue), 250))
    /\ (args.mon = 0 /\ args.tue = 10) =>
         /\ ClaimedScale(args.tue) = Dec(110, 100)
         /\ Near(Converted(500, ClaimedScale(args.tue), 1000), Dec(55, 100))
         /\ Bought(ret.q, "Flour (1 kg)") = 1

\* C3, GET /jit/plan: tuesday_items holds the converted amounts, the litres
\* of the waffles being part of Tuesday's milk.
C3_PlanWaffles ==
  Done("plan") /\ args.mon >= 0 /\ args.tue >= 0 =>
    /\ Near(Amount(ret.tuesday_items, "flour"), Converted(500, ClaimedScale(args.tue), 1000))
    /\ Near(Amount(ret.tuesday_items, "sugar"), Converted(50, ClaimedScale(args.tue), 1000))
    /\ Near(Amount(ret.tuesday_items, "eggs"), Converted(4, ClaimedScale(args.tue), 1))
    /\ Near(Amount(ret.tuesday_items, "milk"),
            FAdd(FMul(FMul(FromInt(args.tue), Dec(25, 100)), Dec(110, 100)),
                 Converted(500, ClaimedScale(args.tue), 1000)))
    /\ Near(Amount(ret.tuesday_items, "baking_powder"),
            Converted(10, ClaimedScale(args.tue), 100))
    /\ Near(Amount(ret.tuesday_items, "butter"), Converted(50, ClaimedScale(args.tue), 250))

\* C3: for every Tuesday attendance t the waffle scale is t x 1.10 / 10 and the
\* Tuesday quantities are flour 500 x scale / 1000, sugar 50 x scale / 1000,
\* baking powder 10 x scale / 100, butter 50 x scale / 250, eggs 4 x scale and
\* 500 x scale / 1000 litres of milk, in compute_quantities and in the
\* tuesday_items of GET /jit/plan; for (0, 10) the scale is 1.10, flour is 0.55
\* and 1 unit is bought.
C3_WaffleConversions == C3_QuantitiesWaffles /\ C3_PlanWaffles

\* C3: GET /jit/plan?mon=0&tue=10 has answered with 1.1 blocks of butter and
\* 1.1 packs of baking powder, five and ten times the converted amounts.
C3_PlanButterFivefold ==
  /\ Done("plan") /\ args.mon = 0 /\ args.tue = 10
  /\ Near(Amount(ret.tuesday_items, "butter"), Dec(110, 100))
  /\ Near(Amount(ret.tuesday_items, "baking_powder"), Dec(110, 100))
  /\ Near(Converted(50, ClaimedScale(10), 250), Dec(22, 100))
  /\ Near(Converted(10, ClaimedScale(10), 100), Dec(11, 100))

\* the sum of quantity x unit price over the first i lines of a purchase list
\* whose product has a price for store s
RECURSIVE StoreSum(_, _, _, _)
StoreSum(rounded, prices, s, i) ==
  IF i = 0 THEN Zero
  ELSE IF rounded[i].k \in DOMAIN prices /\ s \in DOMAIN prices[rounded[i].k]
    THEN FAdd(StoreSum(rounded, prices, s, i - 1),
              FMul(FromInt(rounded[i].v), prices[rounded[i].k][s]))
    ELSE StoreSum(rounded, prices, s, i - 1)

\* C4: cost_by_super returns, for each of the three stores, the sum of
\* quantity x unit price over the lines whose product the table prices for
\* that store; a line without price entry, or without a price for the store,
\* adds nothing and no call fails.  So do the totals of compute_quantities'
\* rounded output at DEFAULT_PRICES.
C4_CostIsSumOfPricedLines ==
  /\ Done("cost") =>
       /\ DOMAIN ret.totals = Stores
       /\ \A s \in Stores :
            ret.totals[s] = StoreSum(args.rounded, args.prices, s, Len(args.rounded))
  /\ Done("main") =>
       \A s \in Stores :
         ret.totals[s] = StoreSum(ret.q.rounded, DEFAULT_PRICES, s, Len(ret.q.rounded))

\* C4: cost_by_super has returned for a list that buys a product without
\* price entry and a product a store has no price for; that store's total is
\* 0 and another store's is not.
C4_UnpricedLinesAddNothing ==
  /\ Done("cost")
  /\ \E i \in 1..Len(args.rounded) :
       args.rounded[i].k \notin DOMAIN args.prices /\ args.rounded[i].v > 0
  /\ \E i \in 1..Len(args.rounded), s, t \in Stores :
       /\ args.rounded[i].k \in DOMAIN args.prices /\ args.rounded[i].v > 0
       /\ s \notin DOMAIN args.prices[args.rounded[i].k] /\ IsZero(ret.totals[s])
       /\ ~IsZero(ret.totals[t])

\* the place of a store in the fixed order
Position(s) == CHOOSE i \in 1..Len(SUPERMARKETS) : SUPERMARKETS[i] = s

\* s has a least total, and every store listed before s has a greater one
FirstMinimal(totals, s) ==
  /\ \A t \in Stores : ~FLess(totals[t], totals[s])
  /\ \A t \in Stores : Position(t) < Position(s) => FLess(totals[s], totals[t])

\* C5: the cheapest store reported by the command line, by email_draft and by
\* GET /jit/plan is the store of least total listed first in the order
\* Pak'nSave, New World, Countdown: among equal least totals the first listed,
\* determined by the totals and the order alone.
C5_TieGoesToFirstListed ==
  /\ Done("cost") => FirstMinimal(ret.totals, ret.cheapest)
  /\ Done("main") =>
       FirstMinimal(ret.totals, ret.cheapest) /\ FirstMinimal(ret.totals, ret.email_cheapest)
  /\ Done("plan") => FirstMinimal(ret.totals, ret.cheapest)

\* C5: New World and Countdown tie below Pak'nSave, and New World is reported.
C5_TieBelowFirstStore ==
  /\ Done("cost")
  /\ ret.totals["New World"] = ret.totals["Countdown"]
  /\ FLess(ret.totals["New World"], ret.totals["Pak'nSave"])
  /\ ret.cheapest = "New World"

\* every product of the table has store A's price a same positive constant
\* below store B's
Undercuts(prices, A, B) ==
  /\ DOMAIN prices # {}
  /\ \A k \in DOMAIN prices :
       /\ {A, B} \subseteq DOMAIN prices[k]
       /\ FLess(prices[k][A], prices[k][B])
  /\ \A k, j \in DOMAIN prices :
       FAdd(prices[k][B], FNeg(prices[k][A])) = FAdd(prices[j][B], FNeg(prices[j][A]))

BuysPriced(rounded, prices) ==
  /\ \A i \in 1..Len(rounded) : rounded[i].v >= 0
  /\ \E i \in 1..Len(rounded) : rounded[i].v > 0 /\ rounded[i].k \in DOMAIN prices

WithMore(rounded, i, d) == [rounded EXCEPT ![i].v = @ + d]

NoneBelow(after, before) == \A s \in Stores : ~FLess(after[s], before[s])

\* C7: for a fixed price table, raising the quantity of one product of a
\* purchase list and leaving the others lowers the total of no store.
C7_CostMonotonic ==
  Done("cost") =>
    \A i \in 1..Len(args.rounded), d \in 1..2 :
      NoneBelow(cost_by_super(WithMore(args.rounded, i, d), args.prices), ret.totals)

\* C7: a list has a product whose quantity, raised by one, raises a total.
C7_MoreCostsMore ==
  /\ Done("cost")
  /\ \E i \in 1..Len(args.rounded), s \in Stores :
       FLess(ret.totals[s],
             cost_by_super(WithMore(args.rounded, i, 1), args.prices)[s])

\* the children and the items a consumption record states
Children(data) == Get(data, "children", 0)

Items(data) == Get(data, "items", << >>)

\* C8: with a children count of 0 the nutrition handlers answer, and the
\* average per child and the percentage of the target are 0 whatever was
\* eaten: record_consumption for children = 0, generate_report overall when
\* it counts no actual children, and for each of its days without children.
C8_NoChildrenNoDivision ==
  /\ Done("consumption") /\ Children(args.data) = 0 =>
       /\ ret.status = 200
       /\ ret.body.average_per_child = Zero
       /\ ret.body.percent_of_target = Zero
  /\ Done("report") =>
       /\ ret.status = 200
       /\ ret.body.actual_children = 0 =>
            ret.body.average_per_child = Zero /\ ret.body.percent_of_target = Zero
       /\ \A i \in 1..Len(ret.body.details) :
            ret.body.details[i].v.children = 0 =>
              ret.body.details[i].v.average_per_child = Zero

\* C8: a record of 0 children with calories eaten has been answered.
C8_EatenByNoChildren ==
  /\ Done("consumption") /\ args.data # << >>
  /\ Children(args.data) = 0
  /\ ~IsZero(ret.body.actual_total_kcal)
  /\ ret.body.average_per_child = Zero

\* the sum of quantity x calorie-table value over the first i items, a food
\* the table does not know counting 0
RECURSIVE ClaimedKcal(_, _)
ClaimedKcal(items, i) ==
  IF i = 0 THEN Zero
  ELSE FAdd(ClaimedKcal(items, i - 1),
            FMul(items[i].v, FromInt(Get(CALORIES, items[i].k, 0))))

\* every item is listed in the details, with the table's value or 0
AllListed(items, details) ==
  /\ Len(details) = Len(items)
  /\ \A i \in 1..Len(items) :
       /\ details[i].k = items[i].k
       /\ details[i].v.quantity = items[i].v
       /\ details[i].v.kcal_each = Get(CALORIES, items[i].k, 0)

\* C9 as stated: record_consumption returns expected_total_kcal = children x
\* 450 and actual_total_kcal = the sum of quantity x calorie-table value over
\* the items, a food absent from the table counting 0 and being listed.
C9_ActualIsTheSum ==
  Done("consumption") =>
    /\ ret.status = 200
    /\ ret.body.expected_total_kcal = FromInt(Children(args.data) * 450)
    /\ ret.body.actual_total_kcal
         = ClaimedKcal(Items(args.data), Len(Items(args.data)))
    /\ AllListed(Items(args.data), ret.body.details)

\* C9 amended: actual_total_kcal is that sum rounded to one decimal.
C9_ActualIsTheSumRounded ==
  Done("consumption") =>
    /\ ret.status = 200
    /\ ret.body.expected_total_kcal = FromInt(Children(args.data) * 450)
    /\ ret.body.actual_total_kcal
         = Round1(ClaimedKcal(Items(args.data), Len(Items(args.data))))
    /\ AllListed(Items(args.data), ret.body.details)

\* C9: 30 children ate a quarter of chicken and a waffle the table does not
\* know: 41.25 kcal, returned as 41.2 of 13500 expected.
C9_QuarterChicken ==
  /\ Done("consumption") /\ args.data # << >>
  /\ Children(args.data) = 30
  /\ Items(args.data) = <<Item("chicken", Dec(25, 100)), Item("waffle", FromInt(1))>>
  /\ ClaimedKcal(Items(args.data), 2) = Dec(4125, 100)
  /\ ret.body.actual_total_kcal = Dec(412, 10)
  /\ ret.body.expected_total_kcal = FromInt(13500)

\* the children of the first i days of a report's actual mapping
RECURSIVE DaysChildren(_, _)
DaysChildren(actual, i) ==
  IF i = 0 THEN 0 ELSE DaysChildren(actual, i - 1) + Children(actual[i].v)

\* C10: generate_report's actual_children is the sum of the children of all
\* the days of the actual mapping, whatever their keys, as actual_kcal_total
\* is the sum of their calories.
C10_ChildrenOfEveryDay ==
  Done("report") /\ ret.status = 200 =>
    /\ ret.body.actual_children
         = DaysChildren(Get(args.payload, "actual", << >>),
                        Len(Get(args.payload, "actual", << >>)))
    /\ ret.body.actual_kcal_total = RealKcal(ret.body.details, Zero, 1)

\* C10: a report of Wednesday alone, 2 children and 8 litres of milk, counts
\* 5120 kcal and no child.
C10_WednesdayUncounted ==
  /\ Done("report") /\ args.payload # << >>
  /\ args.payload.actual
       = <<Item("wednesday", [children |-> 2, items |-> <<Item("milk", FromInt(8))>>])>>
  /\ ret.body.actual_kcal_total = FromInt(5120)
  /\ ret.body.actual_children = 0

\* n is the smallest integer with n >= qty / pack_size, in exact arithmetic:
\* n * pack_size has reached qty and (n - 1) * pack_size has not
SmallestAtLeast(n, qty, pack_size) ==
  /\ ~FLess(FromInt(n * pack_size), qty)
  /\ FLess(FromInt((n - 1) * pack_size), qty)

\* a float that holds a whole number
Whole(qty) == IsZero(qty) \/ qty.e >= 0

\* the totals before rounding of the quantities q
Unrounded(q) == Totals(q.mon, q.tue, q.waffles)

\* C12: every entry of compute_quantities' rounded map is the smallest integer
\* greater than or equal to the product's unrounded total divided by its pack
\* size, hence a natural number when neither attendance is negative; and
\* ceil_to_pack, at the pack size 1, returns a whole quantity as it is.
C12_RoundedIsCeiling ==
  /\ Done("main") =>
       \A k \in ProductKeys :
         /\ SmallestAtLeast(Bought(ret.q, k), Unrounded(ret.q)[k], PACKS[k])
         /\ Whole(Unrounded(ret.q)[k]) =>
              FromInt(Bought(ret.q, k)) = Unrounded(ret.q)[k]
         /\ args.mon >= 0 /\ args.tue >= 0 => Bought(ret.q, k) \in Nat
  /\ Done("ceil_to_pack") =>
       /\ SmallestAtLeast(ret, args.qty, args.pack_size)
       /\ args.pack_size = 1 /\ Whole(args.qty) => FromInt(ret) = args.qty

\* C12: ten children on Monday and three on Tuesday have been planned: the
\* total of bread, 1.0 * 10 * 1.1, is the whole number 11 and 11 units are
\* bought, and the total of fruit, between 14 and 15, buys 15.
C12_ElevenBreadsFifteenFruits ==
  /\ Done("main") /\ args.mon = 10 /\ args.tue = 3
  /\ Unrounded(ret.q)["Bread (unit)"] = FromInt(11)
  /\ Bought(ret.q, "Bread (unit)") = 11
  /\ FLess(FromInt(14), Unrounded(ret.q)["Fruit (unit)"])
  /\ FLess(Unrounded(ret.q)["Fruit (unit)"], FromInt(15))
  /\ Bought(ret.q, "Fruit (unit)") = 15

\* no total of the stores is below zero
NonNegative(totals) == \A s \in Stores : ~FLess(totals[s], Zero)

\* C13: every total is non-negative, in the response of GET /jit/plan for any
\* integers mon and tue, and in what cost_by_super returns for the purchase
\* list of compute_quantities.
C13_TotalsNonNegative ==
  /\ Done("plan") => NonNegative(ret.totals)
  /\ Done("main") => NonNegative(ret.totals)

\* C13: GET /jit/plan?mon=-1&tue=0 has answered: every total is the price of
\* -0.55 units of bread, below zero.
C13_NegativeForecastNegativeTotals ==
  /\ Done("plan") /\ args.mon = 0 - 1 /\ args.tue = 0
  /\ Amount(ret.monday_items, "bread") = FMul(Dec(0 - 5, 10), Dec(110, 100))
  /\ \A s \in Stores :
       /\ ret.totals[s] = FMul(PRICES["bread"][s], Amount(ret.monday_items, "bread"))
       /\ FLess(ret.totals[s], Zero)

\* DEFAULT_PRICES as the module holds it now
DefaultsNow == TableOf(heap, DefaultRefs)

\* the lookups prices_for_all has made of product k at store m
Attempts(k, m) ==
  {n \in 1..Len(fetched) : fetched[n].product = k /\ fetched[n].market = m}

\* a price table with a row for every product and a number for every store
IsPriceTable(t) ==
  /\ DOMAIN t = ProductKeys
  /\ \A k \in ProductKeys : DOMAIN t[k] = Stores /\ \A m \in Stores : t[k][m].s \in {0, 1}

\* C11: without the scraping libraries every call of fetch_price returns None,
\* prices_for_all returns a table (it raises nothing) equal to DEFAULT_PRICES
\* for every product and every store, and DEFAULT_PRICES is as it was written.
C11_NoDepsDefaultPrices ==
  ~HAS_SCRAPE_DEPS =>
    /\ \A n \in 1..Len(fetched) : fetched[n].p = None
    /\ DefaultsNow = DEFAULT_PRICES
    /\ Done("prices_for_all") =>
         /\ IsPriceTable(ret)
         /\ \A k \in ProductKeys : \A m \in Stores : ret[k][m] = DEFAULT_PRICES[k][m]

\* C11: without the scraping libraries prices_for_all has returned after its
\* 33 lookups, none of which found a price.
C11_AllLookupsEmpty ==
  /\ ~HAS_SCRAPE_DEPS /\ Done("prices_for_all")
  /\ Len(fetched) = Len(PRODUCTS) * Len(SUPERMARKETS)
  /\ \A n \in 1..Len(fetched) : fetched[n].p = None
  /\ ret = DEFAULT_PRICES

\* C14: when prices_for_all returns it has called fetch_price exactly once for
\* every product and store of the default table, whichever lookups failed;
\* the cell of a pair is the price its lookup returned, or the default price when
\* it returned None; and DEFAULT_PRICES is as it was written, during the call
\* and after it.
C14_OneLookupPerCell ==
  /\ DefaultsNow = DEFAULT_PRICES
  /\ \A k \in ProductKeys : \A m \in Stores : Cardinality(Attempts(k, m)) <= 1
  /\ Done("prices_for_all") =>
       /\ IsPriceTable(ret)
       /\ \A k \in ProductKeys : \A m \in Stores :
            /\ Cardinality(Attempts(k, m)) = 1
            /\ \A n \in Attempts(k, m) :
                 ret[k][m] = IF fetched[n].p # None THEN fetched[n].p
                             ELSE DEFAULT_PRICES[k][m]

\* C14: prices_for_all has returned after a call in which the first lookup
\* found $1.99, the second failed and the last found $2: milk at Pak'nSave
\* costs 1.99 and butter at Countdown 2.0 in the table returned, milk at New
\* World its default 2.30, and DEFAULT_PRICES still holds 2.20 for milk at
\* Pak'nSave.
C14_FirstAndLastFound ==
  /\ HAS_SCRAPE_DEPS /\ Done("prices_for_all")
  /\ Len(fetched) = Len(PRODUCTS) * Len(SUPERMARKETS)
  /\ fetched[1].p = Dec(199, 100)
  /\ fetched[2].p = None
  /\ fetched[Len(fetched)].p = FromInt(2)
  /\ ret["Milk (1 L)"]["Pak'nSave"] = Dec(199, 100)
  /\ ret["Milk (1 L)"]["New World"] = Dec(230, 100)
  /\ ret["Butter (250 g)"]["Countdown"] = FromInt(2)
  /\ DefaultsNow["Milk (1 L)"]["Pak'nSave"] = Dec(220, 100)

=============================================================================
